---- MODULE Spec2Model ----
(***************************************************************************)
(* A state-machine model of src/plugins/lanplus/lanplus_crypt_impl.c of    *)
(* ipmitool: lanplus_seed_prng, lanplus_rand, lanplus_HMAC,                *)
(* lanplus_encrypt_aes_cbc_128 and lanplus_decrypt_aes_cbc_128.            *)
(*                                                                         *)
(* Every caller ("thread") p runs one call at a time; a call is cut into   *)
(* the steps between which another thread may run.  The OpenSSL routines   *)
(* the file calls (EVP, HMAC and RAND) are modelled by what the OpenSSL    *)
(* 1.0.x sources do (the file allocates EVP_CIPHER_CTX on the stack, which *)
(* only that API generation allows).  The AES block transform and SHA-1    *)
(* are replaced by small keyed functions with the same algebraic shape     *)
(* (a keyed permutation of 16-byte blocks and its inverse; a 20-byte keyed *)
(* digest); CBC chaining, buffering, padding and the length bookkeeping    *)
(* are modelled byte for byte.                                             *)
(***************************************************************************)
EXTENDS Integers, Sequences, FiniteSets, TLC

\* call[p]: the arguments of thread p's current call and what the environment
\* does during it; frame[p]: its progress and what the caller sees of it;
\* ctx[i]: the cipher contexts; build: whether the build selected the test-mode
\* switch of lanplus_rand; threads: the callers that run
VARIABLES call, frame, ctx, build, threads

vars == <<call, frame, ctx, build, threads>>

-----------------------------------------------------------------------------
(* Bounds of the model *)

\* longest input handed to encrypt/decrypt by a lone caller, in bytes
MaxLen == 33
\* longest input handed to encrypt/decrypt when two callers run concurrently
MaxConcLen == 17
\* largest num_bytes handed to lanplus_rand and bytes handed to lanplus_seed_prng
MaxRand == 18
\* largest mac selector tried (uint8_t mac)
MaxMac == 3

-----------------------------------------------------------------------------
(* Program constants.  The three IPMI values are set in                     *)
(* ipmitool/ipmi_constants.h (0x10, 0x01, 0x01), which the file includes.   *)

IPMI_CRYPT_AES_CBC_128_BLOCK_SIZE == 16
IPMI_AUTH_RAKP_HMAC_SHA1 == 1
IPMI_INTEGRITY_HMAC_SHA1_96 == 1
\* length of the SHA-1 digest HMAC() stores through md_len
SHA_DIGEST_LENGTH == 20

BS == IPMI_CRYPT_AES_CBC_128_BLOCK_SIZE

-----------------------------------------------------------------------------
(* Bytes and blocks *)

RECURSIVE BitXor(_, _, _)
BitXor(a, b, n) ==
  IF n = 0 THEN 0
  ELSE (((a % 2) + (b % 2)) % 2) + (2 * BitXor(a \div 2, b \div 2, n - 1))

RECURSIVE BitOr(_, _, _)
BitOr(a, b, n) ==
  IF n = 0 THEN 0
  ELSE (IF (a % 2) = 1 \/ (b % 2) = 1 THEN 1 ELSE 0)
       + (2 * BitOr(a \div 2, b \div 2, n - 1))

XorBlock(x, y) == [i \in 1..BS |-> BitXor(x[i], y[i], 8)]

Fill(v, n) == [i \in 1..n |-> v]

Take(s, n) == SubSeq(s, 1, n)
Drop(s, n) == SubSeq(s, n + 1, Len(s))

\* the bytes of buf with data stored at offset off (0-based), as memcpy would
WriteAt(buf, off, data) ==
  [i \in 1..(IF off + Len(data) > Len(buf) THEN off + Len(data) ELSE Len(buf)) |->
     IF i > off /\ i <= off + Len(data) THEN data[i - off]
     ELSE IF i <= Len(buf) THEN buf[i] ELSE 0]

\* stand-in for the AES-128 block encryption under key: a keyed permutation
AesEncBlock(key, b) ==
  [i \in 1..BS |-> (b[(i % BS) + 1] + key[i] + i) % 256]

\* its inverse, the AES-128 block decryption
AesDecBlock(key, c) ==
  [j \in 1..BS |->
     LET i == IF j = 1 THEN BS ELSE j - 1
     IN  (c[i] + 512 - key[i] - i) % 256]

\* EVP_aes_128_cbc do_cipher, encrypting direction: data is whole blocks
RECURSIVE CbcEncrypt(_, _, _)
CbcEncrypt(key, chain, data) ==
  IF Len(data) < BS THEN <<>>
  ELSE LET c == AesEncBlock(key, XorBlock(Take(data, BS), chain))
       IN  c \o CbcEncrypt(key, c, Drop(data, BS))

\* EVP_aes_128_cbc do_cipher, decrypting direction
RECURSIVE CbcDecrypt(_, _, _)
CbcDecrypt(key, chain, data) ==
  IF Len(data) < BS THEN <<>>
  ELSE LET blk == Take(data, BS)
       IN  XorBlock(AesDecBlock(key, blk), chain)
             \o CbcDecrypt(key, blk, Drop(data, BS))

\* the chaining value do_cipher leaves in the context: the last ciphertext block
NextChain(chain, cipher) ==
  IF Len(cipher) < BS THEN chain ELSE Drop(cipher, Len(cipher) - BS)

RECURSIVE SumSeq(_)
SumSeq(s) == IF s = <<>> THEN 0 ELSE Head(s) + SumSeq(Tail(s))

\* stand-in for HMAC-SHA1: a deterministic 20-byte keyed digest of d
HmacSha1(key, d) ==
  [i \in 1..SHA_DIGEST_LENGTH |->
     ((3 * SumSeq(key)) + (7 * SumSeq(d)) + Len(d) + (11 * i)) % 256]

-----------------------------------------------------------------------------
(* The OpenSSL cipher context and the EVP routines the file calls *)

\* the bytes of an EVP_CIPHER_CTX before EVP_CIPHER_CTX_init: nothing acquired
NoCtx ==
  [state |-> "none", encrypt |-> FALSE, key |-> Fill(0, BS), iv |-> Fill(0, BS),
   buf |-> <<>>, final |-> <<>>, final_used |-> FALSE, no_padding |-> FALSE]

\* EVP_CIPHER_CTX_init followed by EVP_EncryptInit_ex / EVP_DecryptInit_ex with
\* EVP_aes_128_cbc(): the context now owns cipher data; the flags are cleared,
\* so EVP_CIPH_NO_PADDING is off (nothing calls EVP_CIPHER_CTX_set_padding)
EVP_CipherInit(enc, key, iv) ==
  [state |-> "acquired", encrypt |-> enc, key |-> key, iv |-> iv,
   buf |-> <<>>, final |-> <<>>, final_used |-> FALSE, no_padding |-> FALSE]

\* EVP_CIPHER_CTX_cleanup: the cipher data is wiped and freed
EVP_CIPHER_CTX_cleanup(c) == [NoCtx EXCEPT !.state = "released"]

\* what a library call hands back: its return value, the count it stored
\* through outl (-1: it stored none), the bytes it wrote at out, the context
LibResult(ret, outl, out, c) == [ret |-> ret, outl |-> outl, out |-> out, ctx |-> c]

\* EVP_EncryptUpdate: every whole block of buf + in goes through do_cipher, the
\* rest is kept in buf.  lib.updOk is do_cipher's report; the count left in
\* outl by a failed call is not part of the library's contract (lib.failCount).
EVP_EncryptUpdate(c, in, lib) ==
  IF Len(in) <= 0 THEN LibResult(Len(in) = 0, 0, <<>>, c)
  ELSE
    LET data == c.buf \o in
        n == Len(data) - (Len(data) % BS)
        whole == Take(data, n)
        res == IF c.encrypt THEN CbcEncrypt(c.key, c.iv, whole)
               ELSE CbcDecrypt(c.key, c.iv, whole)
        chain == IF c.encrypt THEN NextChain(c.iv, res) ELSE NextChain(c.iv, whole)
    IN  IF n > 0 /\ ~lib.updOk
        THEN LibResult(FALSE, IF lib.failCount THEN n ELSE 0, <<>>, c)
        ELSE LibResult(TRUE, n, res,
                       [c EXCEPT !.iv = chain, !.buf = Drop(data, n)])

\* EVP_DecryptUpdate: with padding on, the last whole block is held back in
\* final (it may be padding) and not counted in outl
EVP_DecryptUpdate(c, in, lib) ==
  IF Len(in) <= 0 THEN LibResult(Len(in) = 0, 0, <<>>, c)
  ELSE IF c.no_padding THEN EVP_EncryptUpdate(c, in, lib)
  ELSE
    LET pre == IF c.final_used THEN c.final ELSE <<>>
        r == EVP_EncryptUpdate(c, in, lib)
        hold == BS > 1 /\ r.ctx.buf = <<>>
        outl == r.outl - (IF hold THEN BS ELSE 0) + Len(pre)
    IN  IF ~r.ret THEN r
        ELSE LibResult(TRUE, outl, pre \o r.out,
                       [r.ctx EXCEPT !.final_used = hold,
                                     !.final = IF hold
                                               THEN Drop(r.out, Len(r.out) - BS)
                                               ELSE @])

\* EVP_EncryptFinal_ex: with padding on, one more block is always produced
\* (a whole block of value 16 when the input was block aligned)
EVP_EncryptFinal_ex(c, lib) ==
  IF c.no_padding
  THEN IF Len(c.buf) > 0 THEN LibResult(FALSE, -1, <<>>, c)
       ELSE LibResult(TRUE, 0, <<>>, c)
  ELSE
    LET n == BS - Len(c.buf)
        blk == c.buf \o Fill(n, n)
        res == CbcEncrypt(c.key, c.iv, blk)
    IN  IF lib.finOk THEN LibResult(TRUE, BS, res, [c EXCEPT !.iv = res, !.buf = <<>>])
        ELSE LibResult(FALSE, -1, <<>>, c)

\* EVP_DecryptFinal_ex: with padding on, the held-back block must end in n bytes
\* of value n, 1 <= n <= 16, which are stripped
EVP_DecryptFinal_ex(c) ==
  IF c.no_padding
  THEN IF Len(c.buf) > 0 THEN LibResult(FALSE, 0, <<>>, c)
       ELSE LibResult(TRUE, 0, <<>>, c)
  ELSE IF Len(c.buf) > 0 \/ ~c.final_used THEN LibResult(FALSE, 0, <<>>, c)
  ELSE
    LET n == c.final[BS]
    IN  IF n = 0 \/ n > BS THEN LibResult(FALSE, 0, <<>>, c)
        ELSE IF \E i \in (BS - n + 1)..BS : c.final[i] # n
             THEN LibResult(FALSE, 0, <<>>, c)
        ELSE LibResult(TRUE, BS - n, Take(c.final, BS - n), c)

\* RAND_load_file(file, bytes) of OpenSSL 1.0.x: the number of bytes read and
\* added to the generator; 0 when the file cannot be opened or bytes is 0
RAND_load_file(available, supplied, bytes) ==
  IF ~available \/ bytes = 0 THEN 0
  ELSE IF supplied < bytes THEN supplied ELSE bytes

-----------------------------------------------------------------------------
(* Calls, and the caller-visible state of a call in progress *)

Threads == {1, 2}

\* what the environment does during one call: do_cipher's report in the update
\* and finalize steps, whether a failed update left a count in outl, RAND_bytes'
\* report, and what the entropy device supplies
NoLib ==
  [updOk |-> TRUE, failCount |-> FALSE, finOk |-> TRUE, randOk |-> TRUE,
   devAvail |-> TRUE, devBytes |-> 0]

\* the arguments of a call; n is num_bytes (lanplus_rand) or bytes
\* (lanplus_seed_prng); input is d for lanplus_HMAC; input_length is Len(input).
\* rt marks a decrypt of what the caller's preceding encrypt produced from
\* plain, which reported encbw bytes.
NoCall ==
  [op |-> "none", iv |-> <<>>, key |-> <<>>, input |-> <<>>, mac |-> 0, n |-> 0,
   lib |-> NoLib, rt |-> FALSE, plain |-> <<>>, encbw |-> 0]

\* pc: the place of the call; bw: *bytes_written or *md_len (-1: not stored
\* yet); out: the bytes stored so far in output, md or buffer; tmplen: the local
\* of that name (-1: not stored); updRet, finRet: what the update and finalize
\* steps reported ("none": not invoked); ret: the returned value of the int
\* functions; diag: what was printed on stderr
NoFrame ==
  [pc |-> "idle", bw |-> -1, out |-> <<>>, tmplen |-> -1, updRet |-> "none",
   finRet |-> "none", ret |-> -1, diag |-> "none"]

\* variant: the context is one static object that all calls use
CtxOfStatic(p) == 1

\* EVP_CIPHER_CTX ctx is an automatic variable: every call has its own
CtxOf(p) == p

-----------------------------------------------------------------------------
(* lanplus_seed_prng and lanplus_rand *)

\* lanplus_seed_prng: 1 only when RAND_load_file returned 0
SeedPrng(c) ==
  IF RAND_load_file(c.lib.devAvail, c.lib.devBytes, c.n) = 0 THEN 1 ELSE 0

\* whether IPMI_LANPLUS_FAKE_RAND is defined where the #ifdef of lanplus_rand is
\* read: the #define on the line before it defines it whatever the build selected
FakeRandDefined(switchSelected) == TRUE

\* the index-derived fill: buffer[i] = 0x70 | i, stored in a uint8_t
FakeFill(n) == [i \in 1..n |-> BitOr(112, i - 1, 8) % 256]

\* what RAND_bytes stores when it succeeds: bytes the caller cannot predict
RandomFills(n) == {Fill(v, n) : v \in {3, 200}}

\* lanplus_rand: the stored buffers and return values it may end with
Rand(c, switchSelected) ==
  IF FakeRandDefined(switchSelected)
  THEN {[out |-> FakeFill(c.n), ret |-> 0]}
  ELSE IF c.lib.randOk
       THEN {[out |-> b, ret |-> 0] : b \in RandomFills(c.n)}
       ELSE {[out |-> <<>>, ret |-> 1]}

-----------------------------------------------------------------------------
(* lanplus_HMAC *)

\* variant: every mac value selects EVP_sha1()
MacAnyAccepted(mac) == TRUE

\* the test on mac that selects EVP_sha1()
MacSupported(mac) ==
  mac = IPMI_AUTH_RAKP_HMAC_SHA1 \/ mac = IPMI_INTEGRITY_HMAC_SHA1_96

\* the if/else on mac: evp_md = EVP_sha1(), or the message and assert(0)
HmacCheck(c, f) ==
  IF MacSupported(c.mac) THEN [f EXCEPT !.pc = "hmac"]
  ELSE [f EXCEPT !.pc = "aborted", !.diag = "Invalid mac type"]

\* return HMAC(evp_md, key, key_len, d, n, md, md_len)
HmacCompute(c, f) ==
  [f EXCEPT !.pc = "returned", !.out = HmacSha1(c.key, c.input),
            !.bw = SHA_DIGEST_LENGTH]

-----------------------------------------------------------------------------
(* lanplus_encrypt_aes_cbc_128 and lanplus_decrypt_aes_cbc_128 *)

\* a call's state: its frame f and the cipher context x it works on
CallState(f, x) == [f |-> f, x |-> x]

\* EVP_CIPHER_CTX_init(&ctx); EVP_EncryptInit_ex / EVP_DecryptInit_ex
CipherCtxInit(c, s) ==
  CallState([s.f EXCEPT !.pc = "start"], EVP_CipherInit(c.op = "enc", c.key, c.iv))

\* variant: no early return for an empty input
IsEmptyInputNever(len) == FALSE

\* if (input_length == 0) return;
IsEmptyInput(len) == len = 0

\* *bytes_written = 0, then the early return for an empty input
ZeroCheck(c, s) ==
  CallState([s.f EXCEPT !.bw = 0,
                        !.pc = IF IsEmptyInput(Len(c.input)) THEN "returned"
                               ELSE "assert"],
            s.x)

\* variant: the assertion is compiled out
AssertAlignedOff(len) == TRUE

\* assert((input_length % IPMI_CRYPT_AES_CBC_128_BLOCK_SIZE) == 0)
AssertAligned(len) == (len % IPMI_CRYPT_AES_CBC_128_BLOCK_SIZE) = 0

AssertStep(c, s) ==
  CallState([s.f EXCEPT !.pc = IF AssertAligned(Len(c.input)) THEN "update"
                               ELSE "aborted"],
            s.x)

\* the error branch after a failed update: *bytes_written = 0; return
UpdateFailed(f) == [f EXCEPT !.bw = 0, !.pc = "returned"]

\* EVP_EncryptUpdate / EVP_DecryptUpdate(&ctx, output, bytes_written, input,
\* input_length) and the branch on its result
UpdateStep(c, s) ==
  LET r == IF c.op = "enc" THEN EVP_EncryptUpdate(s.x, c.input, c.lib)
           ELSE EVP_DecryptUpdate(s.x, c.input, c.lib)
      f1 == [s.f EXCEPT !.bw = r.outl, !.out = WriteAt(@, 0, r.out),
                        !.updRet = IF r.ret THEN "ok" ELSE "fail"]
  IN  IF ~r.ret
      THEN CallState(UpdateFailed([f1 EXCEPT !.diag = IF c.op = "dec"
                                                      THEN "decrypt update failed"
                                                      ELSE @]),
                     r.ctx)
      ELSE CallState([f1 EXCEPT !.pc = "final"], r.ctx)

\* variant: the error branch returns without resetting *bytes_written
FinalFailedNoReset(f) == [f EXCEPT !.pc = "returned"]

\* the error branch after a failed finalize: *bytes_written = 0; return
FinalFailed(f) == [f EXCEPT !.bw = 0, !.pc = "returned"]

\* the success branch: *bytes_written += tmplen; EVP_CIPHER_CTX_cleanup(&ctx).
\* Both counts are at most the buffer lengths, far below the 2^32 at which the
\* uint32_t sum would wrap.
FinalSucceeded(s) ==
  CallState([s.f EXCEPT !.bw = @ + s.f.tmplen, !.pc = "returned"],
            EVP_CIPHER_CTX_cleanup(s.x))

\* EVP_EncryptFinal_ex / EVP_DecryptFinal_ex(&ctx, output + *bytes_written,
\* &tmplen) and the branch on its result
FinalStep(c, s) ==
  LET r == IF c.op = "enc" THEN EVP_EncryptFinal_ex(s.x, c.lib)
           ELSE EVP_DecryptFinal_ex(s.x)
      f1 == [s.f EXCEPT !.tmplen = r.outl, !.out = WriteAt(@, s.f.bw, r.out),
                        !.finRet = IF r.ret THEN "ok" ELSE "fail"]
  IN  IF ~r.ret
      THEN CallState(FinalFailed([f1 EXCEPT !.diag = IF c.op = "dec"
                                                     THEN "decrypt final failed"
                                                     ELSE @]),
                     r.ctx)
      ELSE FinalSucceeded(CallState(f1, r.ctx))

\* one call run from entry to its end with a context of its own
RunAlone(c) ==
  LET s0 == CallState([NoFrame EXCEPT !.pc = "entry"], NoCtx)
  IN  IF c.op = "hmac"
      THEN LET h == HmacCheck(c, s0.f)
           IN  IF h.pc = "aborted" THEN h ELSE HmacCompute(c, h)
      ELSE LET s2 == ZeroCheck(c, CipherCtxInit(c, s0))
               s3 == AssertStep(c, s2)
               s4 == UpdateStep(c, s3)
           IN  IF s2.f.pc = "returned" THEN s2.f
               ELSE IF s3.f.pc = "aborted" THEN s3.f
               ELSE IF s4.f.pc = "returned" THEN s4.f
               ELSE FinalStep(c, s4).f

-----------------------------------------------------------------------------
(* The arguments and environments tried *)

Keys == {Fill(0, BS), [i \in 1..BS |-> (17 * i) % 256]}
IVs == {Fill(0, BS), [i \in 1..BS |-> 255 - i]}
Datas(n) == {Fill(65, n), Fill(16, n), [i \in 1..n |-> (37 * i) % 256]}

\* do_cipher's reports; EVP_DecryptFinal_ex runs no do_cipher
CipherLibs(op) ==
  {l \in {[NoLib EXCEPT !.updOk = u, !.failCount = fc, !.finOk = fo] :
            u \in BOOLEAN, fc \in BOOLEAN, fo \in BOOLEAN} :
     (l.failCount => ~l.updOk) /\ (op = "dec" => l.finOk)}

CipherCalls(lens, keys, ivs) ==
  UNION {{[NoCall EXCEPT !.op = op, !.key = k, !.iv = iv, !.input = d, !.lib = l] :
            k \in keys, iv \in ivs, d \in UNION {Datas(n) : n \in lens},
            l \in CipherLibs(op)} : op \in {"enc", "dec"}}

HmacCalls(keys) ==
  {[NoCall EXCEPT !.op = "hmac", !.mac = m, !.key = k, !.input = d] :
     m \in 0..MaxMac, k \in keys, d \in {<<>>, Fill(65, 3)}}

RandCalls(ns) ==
  {[NoCall EXCEPT !.op = "rand", !.n = n, !.lib = [NoLib EXCEPT !.randOk = ok]] :
     n \in ns, ok \in BOOLEAN}

SeedCalls(ns) ==
  UNION {{[NoCall EXCEPT !.op = "seed", !.n = n,
                         !.lib = [NoLib EXCEPT !.devAvail = a, !.devBytes = b]] :
            a \in BOOLEAN, b \in 0..n} : n \in ns}

\* the calls of a lone caller, and those of callers that run concurrently
LoneCalls ==
  CipherCalls(0..MaxLen, Keys, IVs) \cup HmacCalls(Keys)
    \cup RandCalls(0..MaxRand) \cup SeedCalls(0..MaxRand)

ConcCalls ==
  {c \in CipherCalls({0, BS, MaxConcLen}, Keys, {Fill(0, BS)}) :
     c.input \in {Fill(65, Len(c.input))} /\ c.lib.finOk}
    \cup {c \in HmacCalls(Keys) : c.mac <= 1 /\ c.input = <<>>}
    \cup {c \in RandCalls({2}) : c.lib.randOk}
    \cup {c \in SeedCalls({2}) : c.lib.devBytes = 2}

CallsOf(ts) == IF Cardinality(ts) = 1 THEN LoneCalls ELSE ConcCalls

-----------------------------------------------------------------------------
(* The state machine *)

\* abort() ends the whole process: once a call has aborted nothing runs
Running == \A q \in Threads : frame[q].pc # "aborted"

At(p, pc, ops) ==
  /\ p \in threads
  /\ Running
  /\ frame[p].pc = pc
  /\ call[p].op \in ops

Init ==
  /\ call = [p \in Threads |-> NoCall]
  /\ frame = [p \in Threads |-> NoFrame]
  /\ ctx = [p \in Threads |-> NoCtx]
  /\ build \in [fakeRandSwitch : BOOLEAN]
  /\ threads = {1}

InitConc ==
  /\ call = [p \in Threads |-> NoCall]
  /\ frame = [p \in Threads |-> NoFrame]
  /\ ctx = [p \in Threads |-> NoCtx]
  /\ build \in [fakeRandSwitch : BOOLEAN]
  /\ threads = Threads

\* the caller enters one of the five functions
Call(p) ==
  /\ At(p, "idle", {"none"})
  /\ \E c \in CallsOf(threads) : call' = [call EXCEPT ![p] = c]
  /\ frame' = [frame EXCEPT ![p] = [NoFrame EXCEPT !.pc = "entry"]]
  /\ UNCHANGED <<ctx, build, threads>>

\* the caller decrypts what its encrypt call just produced, with the same key
\* and IV: either the bytes_written bytes reported, or as many bytes as the
\* plaintext had
RoundTripCall(p) ==
  /\ At(p, "returned", {"enc"})
  /\ frame[p].bw > 0
  /\ \E len \in {frame[p].bw, Len(call[p].input)} :
       call' = [call EXCEPT ![p] =
                  [NoCall EXCEPT !.op = "dec", !.key = call[p].key,
                                 !.iv = call[p].iv,
                                 !.input = Take(frame[p].out, len),
                                 !.rt = TRUE, !.plain = call[p].input,
                                 !.encbw = frame[p].bw]]
  /\ frame' = [frame EXCEPT ![p] = [NoFrame EXCEPT !.pc = "entry"]]
  /\ ctx' = [ctx EXCEPT ![CtxOf(p)] = NoCtx]
  /\ UNCHANGED <<build, threads>>

\* the returned call's frame is popped and the caller is ready for another
Return(p) ==
  /\ At(p, "returned", {"enc", "dec", "hmac", "rand", "seed"})
  /\ call' = [call EXCEPT ![p] = NoCall]
  /\ frame' = [frame EXCEPT ![p] = NoFrame]
  /\ ctx' = [ctx EXCEPT ![CtxOf(p)] = NoCtx]
  /\ UNCHANGED <<build, threads>>

\* applies step to thread p's call state
Apply(p, s) ==
  /\ frame' = [frame EXCEPT ![p] = s.f]
  /\ ctx' = [ctx EXCEPT ![CtxOf(p)] = s.x]
  /\ UNCHANGED <<call, build, threads>>

Mine(p) == CallState(frame[p], ctx[CtxOf(p)])

EnterCipher(p) ==
  /\ At(p, "entry", {"enc", "dec"})
  /\ Apply(p, CipherCtxInit(call[p], Mine(p)))

CheckEmpty(p) ==
  /\ At(p, "start", {"enc", "dec"})
  /\ Apply(p, ZeroCheck(call[p], Mine(p)))

CheckAligned(p) ==
  /\ At(p, "assert", {"enc", "dec"})
  /\ Apply(p, AssertStep(call[p], Mine(p)))

Update(p) ==
  /\ At(p, "update", {"enc", "dec"})
  /\ Apply(p, UpdateStep(call[p], Mine(p)))

Finalize(p) ==
  /\ At(p, "final", {"enc", "dec"})
  /\ Apply(p, FinalStep(call[p], Mine(p)))

HmacSelect(p) ==
  /\ At(p, "entry", {"hmac"})
  /\ frame' = [frame EXCEPT ![p] = HmacCheck(call[p], frame[p])]
  /\ UNCHANGED <<call, ctx, build, threads>>

HmacRun(p) ==
  /\ At(p, "hmac", {"hmac"})
  /\ frame' = [frame EXCEPT ![p] = HmacCompute(call[p], frame[p])]
  /\ UNCHANGED <<call, ctx, build, threads>>

RandCall(p) ==
  /\ At(p, "entry", {"rand"})
  /\ \E r \in Rand(call[p], build.fakeRandSwitch) :
       frame' = [frame EXCEPT ![p] =
                   [@ EXCEPT !.pc = "returned", !.out = r.out, !.ret = r.ret]]
  /\ UNCHANGED <<call, ctx, build, threads>>

SeedCall(p) ==
  /\ At(p, "entry", {"seed"})
  /\ frame' = [frame EXCEPT ![p] =
                 [@ EXCEPT !.pc = "returned", !.ret = SeedPrng(call[p])]]
  /\ UNCHANGED <<call, ctx, build, threads>>

Next ==
  \E p \in Threads :
    \/ Call(p)
    \/ RoundTripCall(p)
    \/ Return(p)
    \/ EnterCipher(p)
    \/ CheckEmpty(p)
    \/ CheckAligned(p)
    \/ Update(p)
    \/ Finalize(p)
    \/ HmacSelect(p)
    \/ HmacRun(p)
    \/ RandCall(p)
    \/ SeedCall(p)

\* one caller
Spec == Init /\ [][Next]_vars

\* two callers whose steps interleave
SpecConc == InitConc /\ [][Next]_vars

-----------------------------------------------------------------------------
(* The claims *)

Returned(p) == frame[p].pc = "returned"
Cipher(p) == call[p].op \in {"enc", "dec"}
InputLength(p) == Len(call[p].input)
Aligned(p) == (InputLength(p) % 16) = 0

\* C1: a call of encrypt or decrypt whose input_length is a positive multiple
\* of 16 and whose update and finalize steps both reported success returns
\* with bytes_written equal to input_length.
C1_LengthPreserved ==
  \A p \in Threads :
    (Returned(p) /\ Cipher(p) /\ InputLength(p) > 0 /\ Aligned(p)
       /\ frame[p].updRet = "ok" /\ frame[p].finRet = "ok")
      => frame[p].bw = InputLength(p)

\* C2: decrypting, with the same key and IV, what encrypt produced from a
\* plaintext whose length is a positive multiple of 16 gives back the
\* plaintext, and bytes_written equals the plaintext's length after the
\* encrypt call and after the decrypt call.
C2_RoundTrip ==
  \A p \in Threads :
    (Returned(p) /\ call[p].op = "dec" /\ call[p].rt)
      => /\ Take(frame[p].out, frame[p].bw) = call[p].plain
         /\ frame[p].bw = Len(call[p].plain)
         /\ call[p].encbw = Len(call[p].plain)

\* C3: no call of encrypt or decrypt returns while the cipher context it
\* initialized is still acquired.
C3_ContextReleased ==
  \A p \in Threads :
    (Returned(p) /\ Cipher(p)) => ctx[CtxOf(p)].state # "acquired"

\* C4: a call of encrypt or decrypt in which the update or the finalize step
\* reported failure returns with bytes_written = 0; a call with nonzero
\* block-aligned input returns a nonzero bytes_written only if both steps
\* succeeded.
C4_FailureResets ==
  \A p \in Threads :
    (Returned(p) /\ Cipher(p))
      => /\ (frame[p].updRet = "fail" \/ frame[p].finRet = "fail")
              => frame[p].bw = 0
         /\ (InputLength(p) > 0 /\ Aligned(p) /\ frame[p].bw # 0)
              => (frame[p].updRet = "ok" /\ frame[p].finRet = "ok")

\* a finalize step failed after the update step had stored a nonzero count and
\* bytes, and the call returned 0
C4_Witness ==
  \E p \in Threads :
    /\ Returned(p) /\ Cipher(p)
    /\ frame[p].updRet = "ok" /\ frame[p].finRet = "fail"
    /\ frame[p].out # <<>> /\ frame[p].bw = 0

\* C5: a call of encrypt or decrypt with a nonzero input_length that is not a
\* multiple of 16 never reaches the update or finalize step and never returns:
\* it stops at the assertion, with the output unwritten and no nonzero
\* bytes_written.
C5_MisalignedAborts ==
  \A p \in Threads :
    (Cipher(p) /\ InputLength(p) > 0 /\ ~Aligned(p))
      => /\ frame[p].pc \in {"entry", "start", "assert", "aborted"}
         /\ frame[p].updRet = "none" /\ frame[p].finRet = "none"
         /\ frame[p].out = <<>>
         /\ frame[p].bw <= 0

C5_Witness ==
  \E p \in Threads :
    /\ Cipher(p) /\ InputLength(p) > 0 /\ ~Aligned(p)
    /\ frame[p].pc = "aborted" /\ frame[p].bw = 0

\* C6: for a mac other than IPMI_AUTH_RAKP_HMAC_SHA1 and
\* IPMI_INTEGRITY_HMAC_SHA1_96, lanplus_HMAC never reaches the HMAC computation
\* and never returns: it reports the invalid type and aborts with md and md_len
\* unwritten.
C6_InvalidMacAborts ==
  \A p \in Threads :
    (call[p].op = "hmac"
       /\ call[p].mac \notin {IPMI_AUTH_RAKP_HMAC_SHA1, IPMI_INTEGRITY_HMAC_SHA1_96})
      => /\ frame[p].pc \in {"entry", "aborted"}
         /\ frame[p].out = <<>> /\ frame[p].bw = -1
         /\ frame[p].pc = "aborted" => frame[p].diag = "Invalid mac type"

C6_Witness ==
  \E p \in Threads :
    /\ call[p].op = "hmac" /\ call[p].mac = 2
    /\ frame[p].pc = "aborted" /\ frame[p].diag = "Invalid mac type"

\* C7: lanplus_rand stores the index-derived fill only when the build selected
\* the test-mode switch; without the switch it stores the generator's bytes and
\* returns failure when the generator fails.
C7_FakeOnlyWhenSelected ==
  \A p \in Threads :
    (Returned(p) /\ call[p].op = "rand" /\ call[p].n > 0
       /\ ~build.fakeRandSwitch)
      => /\ frame[p].out # FakeFill(call[p].n)
         /\ call[p].lib.randOk => frame[p].out \in RandomFills(call[p].n)
         /\ ~call[p].lib.randOk => frame[p].ret = 1

\* C8: lanplus_seed_prng returns 1 whenever the entropy device is unavailable
\* or supplies fewer bytes than requested, and 0 only when the full count was
\* loaded.
C8_SeedAllOrFailure ==
  \A p \in Threads :
    (Returned(p) /\ call[p].op = "seed")
      => /\ (~call[p].lib.devAvail \/ call[p].lib.devBytes < call[p].n)
              => frame[p].ret = 1
         /\ frame[p].ret = 0
              => (call[p].lib.devAvail /\ call[p].lib.devBytes >= call[p].n)

\* C9: a call of encrypt or decrypt with input_length = 0 goes from its start
\* straight to a normal return with bytes_written = 0: it never aborts, never
\* invokes the update or finalize step and never writes the output.
C9_EmptyInput ==
  \A p \in Threads :
    (Cipher(p) /\ InputLength(p) = 0)
      => /\ frame[p].pc \in {"entry", "start", "returned"}
         /\ frame[p].updRet = "none" /\ frame[p].finRet = "none"
         /\ frame[p].out = <<>>
         /\ Returned(p) => frame[p].bw = 0

C9_Witness ==
  \E p \in Threads :
    /\ Cipher(p) /\ InputLength(p) = 0
    /\ Returned(p) /\ frame[p].bw = 0 /\ frame[p].out = <<>>

\* C10: whatever the interleaving of two concurrent calls of encrypt, decrypt
\* or lanplus_HMAC, a call that has ended holds the output bytes and the
\* bytes_written / md_len that the same call yields when run alone.
C10_SameAsAlone ==
  \A p \in Threads :
    (Returned(p) /\ call[p].op \in {"enc", "dec", "hmac"})
      => /\ frame[p].out = RunAlone(call[p]).out
         /\ frame[p].bw = RunAlone(call[p]).bw

\* an encrypt call has ended with output while the other thread's decrypt
\* call, under another key, is between its update and finalize steps
C10_Witness ==
  \E p \in Threads, q \in Threads :
    /\ p # q
    /\ Returned(p) /\ call[p].op = "enc" /\ frame[p].bw > 0
    /\ call[q].op = "dec" /\ frame[q].pc = "final"
    /\ call[q].key # call[p].key

====
